---- MODULE Spec2Model ----
(***************************************************************************)
(* The travel planner (app.py and the four service clients) as a state     *)
(* machine.  One script run of main() is a sequence of steps, one per      *)
(* blocking call; every user interaction starts a new script run.          *)
(***************************************************************************)
EXTENDS Integers, Sequences, FiniteSets, TLC

VARIABLES
    env,            \* the process environment (credentials, SDK behaviour)
    pc,             \* position of the running script, "idle" between runs
    runs,           \* script runs started so far in this process
    constructed,    \* per client: constructor invocations in this process
    probes,         \* GET /api/tags liveness probes issued in this process
    outcomes,       \* per client: what its constructor did in this run
    services,       \* main(): services
    service_errors, \* main(): service_errors
    widgets,        \* sidebar inputs and the generate button
    radio,          \* the session's stored choice of the AI-service radio
    sidebar,        \* ai_service_options, default option, ai_service
    session_state,  \* st.session_state
    calls,          \* per call name: calls made in this script run
    results,        \* itinerary, weather_data, attractions, restaurants, cafes
    last_call,      \* the external responses of the most recent client call
    shown,          \* what this script run has put on the page, in order
    run_end         \* how this script run ended ("running" while it runs)

vars == <<env, pc, runs, constructed, probes, outcomes, services,
          service_errors, widgets, radio, sidebar, session_state, calls,
          results, last_call, shown, run_end>>

----------------------------------------------------------------------------
(* Bounds *)

MaxRuns == 5
MaxDay == 2
\* The longest itinerary text, in lines.
MaxLines == 4

----------------------------------------------------------------------------
(* Values *)

None == "None"
Client == "client"

ServiceNames == {"openai", "ollama", "places", "weather"}

OLLAMA == "Ollama (Local)"
OPENAI == "OpenAI"

Placeholder == "your_openai_api_key_here"
PlacesPlaceholder == "your_google_places_api_key_here"

Dates == 0..MaxDay

Ok == [kind |-> "ok", msg |-> ""]
ValueError(m) == [kind |-> "ValueError", msg |-> m]
OtherException(m) == [kind |-> "Exception", msg |-> m]

MsgOpenAIKey == "OPENAI_API_KEY not found in environment variables"
MsgOpenAIInit == "Failed to initialize OpenAI client"
MsgOllamaStatus == "Ollama server not responding"
MsgOllamaConnect == "Cannot connect to Ollama"
MsgPlacesKey == "GOOGLE_PLACES_API_KEY not found in environment variables"
MsgPlacesInit == "Failed to initialize Google Places client"
MsgOther == "unexpected failure"

\* "not found" in error_msg
HasNotFound(m) == m \in {MsgOpenAIKey, MsgPlacesKey}

----------------------------------------------------------------------------
(* Client constructors *)

\* OpenAIService.__init__ without the placeholder comparison.
OpenAIService_init_no_placeholder(api_key, sdk_fault) ==
    IF api_key \in {"absent", ""}
    THEN ValueError(MsgOpenAIKey)
    ELSE IF sdk_fault THEN ValueError(MsgOpenAIInit) ELSE Ok

\* OpenAIService.__init__: api_key is None ("absent"), "" or a string;
\* sdk_fault says whether openai.OpenAI(api_key=...) raises.
OpenAIService_init(api_key, sdk_fault) ==
    IF api_key \in {"absent", ""} \/ api_key = Placeholder
    THEN ValueError(MsgOpenAIKey)
    ELSE IF sdk_fault THEN ValueError(MsgOpenAIInit) ELSE Ok

\* OllamaService.__init__: probe is the outcome of GET {base_url}/api/tags.
OllamaService_init(probe) ==
    CASE probe = "200" -> Ok
      [] probe = "non200" -> ValueError(MsgOllamaStatus)
      [] probe = "RequestException" -> ValueError(MsgOllamaConnect)

\* PlacesService.__init__: googlemaps.Client(key=...) raises on a key it
\* does not accept ("invalid").
PlacesService_init(api_key) ==
    IF api_key \in {"absent", ""} \/ api_key = PlacesPlaceholder
    THEN ValueError(MsgPlacesKey)
    ELSE IF api_key = "invalid" THEN ValueError(MsgPlacesInit) ELSE Ok

\* WeatherService.__init__: stores the key, never raises.
WeatherService_init(api_key) == Ok

----------------------------------------------------------------------------
(* initialize_services *)

\* One try/except block of initialize_services for a load-bearing client:
\* the slot and the failure descriptions it appends.
FriendlyKeyError(label) == <<label, "API key not configured">>

SlotOf(out) == IF out.kind = "ok" THEN Client ELSE None

OpenAIErrors(out) ==
    CASE out.kind = "ok" -> <<>>
      [] out.kind = "ValueError" ->
            IF HasNotFound(out.msg) \/ out.msg = Placeholder
            THEN <<FriendlyKeyError("OpenAI")>>
            ELSE << <<"OpenAI", out.msg>> >>
      [] OTHER -> << <<"OpenAI", out.msg>> >>

OllamaErrors(out) ==
    CASE out.kind = "ok" -> <<>>
      [] OTHER -> << <<"Ollama", out.msg>> >>

\* PlacesErrors without the errors.append calls.
PlacesErrors_not_recorded(out) == <<>>

PlacesErrors(out) ==
    CASE out.kind = "ok" -> <<>>
      [] out.kind = "ValueError" ->
            IF HasNotFound(out.msg) \/ out.msg = PlacesPlaceholder
            THEN <<FriendlyKeyError("Google Places")>>
            ELSE << <<"Google Places", out.msg>> >>
      [] OTHER -> << <<"Google Places", out.msg>> >>

\* The weather block appends nothing to errors.
WeatherErrors(out) == <<>>

\* The except clauses of a client's block: ValueError then Exception for the
\* load-bearing clients, Exception alone for the weather client.
Caught(s, out) == out.kind \in {"ok", "ValueError", "Exception"}

\* initialize_services(): outs maps each client to its constructor outcome;
\* raised says whether an exception leaves the function.
initialize_services(outs) ==
    [raised |-> \E s \in ServiceNames : ~Caught(s, outs[s]),
     services |-> [s \in ServiceNames |-> SlotOf(outs[s])],
     errors |-> OpenAIErrors(outs["openai"]) \o OllamaErrors(outs["ollama"])
                \o PlacesErrors(outs["places"]) \o WeatherErrors(outs["weather"])]

----------------------------------------------------------------------------
(* Provider clients: generate_itinerary *)

\* kind is the class of the raised error: both providers raise a plain
\* Exception from every except clause.
Returned(t) == [raised |-> FALSE, kind |-> None, msg |-> "", text |-> t]
Raised(m) == [raised |-> TRUE, kind |-> "Exception", msg |-> m, text |-> ""]

MsgTimeout == "Ollama request timed out. The model might be too slow or not responding."
MsgConnect == "Error connecting to Ollama"
MsgStatus == "Error generating itinerary: Ollama API error: <status_code>"
MsgGenerating == "Error generating itinerary"

\* What POST {base_url}/api/chat can do: raise Timeout, raise another
\* RequestException, answer non-200, answer 200 with a body that is not JSON
\* (response.json() raises a RequestException subclass or a plain ValueError,
\* depending on the requests version), or answer 200 with a JSON body that
\* has no message content, a null content, a blank content or a text.
OllamaResponses ==
    {"Timeout", "RequestException", "non200", "json_RequestException",
     "json_ValueError", "no_message", "null_content", "blank_content",
     "content"}

\* generate_itinerary with the Timeout clause below the RequestException
\* clause: a timeout is a RequestException and takes the connection message.
Ollama_generate_itinerary_no_timeout_clause(resp) ==
    CASE resp \in {"Timeout", "RequestException", "json_RequestException"} ->
            Raised(MsgConnect)
      [] resp = "non200" -> Raised(MsgStatus)
      [] resp \in {"json_ValueError", "null_content"} -> Raised(MsgGenerating)
      [] resp \in {"no_message", "blank_content"} -> Returned("")
      [] resp = "content" -> Returned("itinerary")

\* OllamaService.generate_itinerary
Ollama_generate_itinerary(resp) ==
    CASE resp = "Timeout" -> Raised(MsgTimeout)
      [] resp \in {"RequestException", "json_RequestException"} -> Raised(MsgConnect)
      [] resp = "non200" -> Raised(MsgStatus)
      [] resp \in {"json_ValueError", "null_content"} -> Raised(MsgGenerating)
      [] resp \in {"no_message", "blank_content"} -> Returned("")
      [] resp = "content" -> Returned("itinerary")

\* What client.chat.completions.create can do: raise (transport, timeout,
\* API status), or return a response with no choices, a null content, a
\* blank content or a text.
OpenAIResponses ==
    {"api_error", "no_choices", "null_content", "blank_content", "content"}

\* OpenAIService.generate_itinerary
OpenAI_generate_itinerary(resp) ==
    CASE resp \in {"api_error", "no_choices", "null_content"} -> Raised(MsgGenerating)
      [] resp = "blank_content" -> Returned("")
      [] resp = "content" -> Returned("itinerary")

----------------------------------------------------------------------------
(* Weather client *)

NotCalled == "-"

WeatherGeocodeResponses == {"exception", "non200", "empty", "malformed", "found"}
\* "not_json": 200 whose body does not parse (raises at weather_response.json());
\* "missing_fields": 200 JSON without main/weather (raises when the summary is
\* built, after the forecast call); "bad_description": 200 JSON whose
\* description is not a string.
CurrentResponses ==
    {"exception", "non200", "not_json", "missing_fields", "bad_description", "ok"}
ForecastResponses == {"exception", "non200", "not_json", "ok"}

Summary(cur, fc) ==
    [current |-> IF cur = "ok" THEN "conditions" ELSE "conditions_bad_description",
     forecast |-> IF fc = "ok" THEN "forecast" ELSE None]

NoSummary == [current |-> None, forecast |-> None]

\* get_weather_summary without the "if not self.api_key: return None" test:
\* the requests are sent with appid=None.
get_weather_summary_no_key_check(api_key, geo, cur, fc) ==
    IF geo # "found"
    THEN [data |-> NoSummary, geocode |-> 1, current |-> 0, forecast |-> 0]
    ELSE IF cur \in {"exception", "non200", "not_json"}
    THEN [data |-> NoSummary, geocode |-> 1, current |-> 1, forecast |-> 0]
    ELSE IF fc \in {"exception", "not_json"} \/ cur = "missing_fields"
    THEN [data |-> NoSummary, geocode |-> 1, current |-> 1, forecast |-> 1]
    ELSE [data |-> Summary(cur, fc), geocode |-> 1, current |-> 1, forecast |-> 1]

\* WeatherService.get_weather_summary: data is the returned value (NoSummary
\* stands for None), n the requests made to the geocode, current-conditions
\* and forecast endpoints.
get_weather_summary(api_key, geo, cur, fc) ==
    IF api_key \in {"absent", ""}
    THEN [data |-> NoSummary, geocode |-> 0, current |-> 0, forecast |-> 0]
    ELSE IF geo # "found"
    THEN [data |-> NoSummary, geocode |-> 1, current |-> 0, forecast |-> 0]
    ELSE IF cur \in {"exception", "non200", "not_json"}
    THEN [data |-> NoSummary, geocode |-> 1, current |-> 1, forecast |-> 0]
    ELSE IF fc \in {"exception", "not_json"} \/ cur = "missing_fields"
    THEN [data |-> NoSummary, geocode |-> 1, current |-> 1, forecast |-> 1]
    ELSE [data |-> Summary(cur, fc), geocode |-> 1, current |-> 1, forecast |-> 1]

\* WeatherService.format_weather_summary raises when the description has no
\* .title() (it is not a string).
format_weather_summary_raises(data) == data.current = "conditions_bad_description"

\* The responses a call consumes; the others are NotCalled.
WeatherInputs ==
    {t \in (WeatherGeocodeResponses \X (CurrentResponses \cup {NotCalled})
            \X (ForecastResponses \cup {NotCalled})) :
        /\ (t[2] = NotCalled) <=> (t[1] # "found")
        /\ (t[3] = NotCalled) <=> (t[2] \in {NotCalled, "exception", "non200", "not_json"})}

----------------------------------------------------------------------------
(* Geo-enrichment client *)

Categories == <<"attractions", "restaurants", "cafes">>

GeocodeResponses == {"exception", "empty", "malformed", "found"}
NearbyResponses == {"exception", "malformed", "no_results", "results"}

\* nearby_search without the except block: an exception of the geocode or
\* the nearby-search call leaves the method.
nearby_search_propagates(geo, nb) ==
    IF geo \in {"exception", "malformed"}
    THEN [result |-> "empty", raised |-> TRUE, geocode |-> 1, nearby |-> 0]
    ELSE IF geo = "empty"
    THEN [result |-> "empty", raised |-> FALSE, geocode |-> 1, nearby |-> 0]
    ELSE IF nb = "results"
    THEN [result |-> "places", raised |-> FALSE, geocode |-> 1, nearby |-> 1]
    ELSE [result |-> "empty", raised |-> nb \in {"exception", "malformed"},
          geocode |-> 1, nearby |-> 1]

\* nearby_search without the "if not geocode_result: return []" test placed
\* before the nearby-search call: the call is issued for an empty geocode
\* result too, and the emptiness is noticed afterwards.
nearby_search_no_empty_check(geo, nb) ==
    IF geo \in {"exception", "malformed"}
    THEN [result |-> "empty", raised |-> FALSE, geocode |-> 1, nearby |-> 0]
    ELSE IF geo = "found" /\ nb = "results"
    THEN [result |-> "places", raised |-> FALSE, geocode |-> 1, nearby |-> 1]
    ELSE [result |-> "empty", raised |-> FALSE, geocode |-> 1, nearby |-> 1]

\* nearby_search with a second geocode attempt after a failed one.
nearby_search_retries(geo, nb) ==
    IF geo # "found"
    THEN [result |-> "empty", raised |-> FALSE, geocode |-> 2, nearby |-> 0]
    ELSE IF nb = "results"
    THEN [result |-> "places", raised |-> FALSE, geocode |-> 1, nearby |-> 1]
    ELSE [result |-> "empty", raised |-> FALSE, geocode |-> 1, nearby |-> 1]

\* PlacesService.get_attractions / get_restaurants / get_cafes: the three
\* bodies differ in the place type only.
nearby_search(geo, nb) ==
    IF geo # "found"
    THEN [result |-> "empty", raised |-> FALSE, geocode |-> 1, nearby |-> 0]
    ELSE IF nb = "results"
    THEN [result |-> "places", raised |-> FALSE, geocode |-> 1, nearby |-> 1]
    ELSE [result |-> "empty", raised |-> FALSE, geocode |-> 1, nearby |-> 1]

get_attractions(geo, nb) == nearby_search(geo, nb)
get_restaurants(geo, nb) == nearby_search(geo, nb)
get_cafes(geo, nb) == nearby_search(geo, nb)

PlacesInputs ==
    {t \in GeocodeResponses \X (NearbyResponses \cup {NotCalled}) :
        (t[2] = NotCalled) <=> (t[1] # "found")}

----------------------------------------------------------------------------
(* main(): helpers *)

CallNames ==
    {<<"generate", "openai">>, <<"generate", "ollama">>,
     <<"weather", "summary">>, <<"weather", "geocode">>,
     <<"weather", "current">>, <<"weather", "forecast">>}
    \cup {<<k, Categories[i]>> : k \in {"places", "geocode", "nearby"}, i \in 1..3}

NoCalls == [c \in CallNames |-> 0]

NoResults ==
    [itinerary |-> None, weather_data |-> NoSummary,
     attractions |-> None, restaurants |-> None, cafes |-> None]

NoLastCall == [name |-> None, responses |-> <<>>]

NoOutcomes == [s \in ServiceNames |-> [kind |-> "unset", msg |-> ""]]

NoSidebar == [ai_service_options |-> <<>>, default_option |-> None, ai_service |-> None]

NoSelection == [options |-> <<>>, value |-> None]

Range(seq) == {seq[i] : i \in DOMAIN seq}

\* validate_dates(start_dt, end_dt) of utils.helpers: <<is_valid, error_msg>>.
validate_dates(start_dt, end_dt) ==
    IF end_dt < start_dt
    THEN <<FALSE, "End date must be after start date">>
    ELSE <<TRUE, "">>

\* The options list with the hosted option appended first.
ai_service_options_hosted_first(svc) ==
    (IF svc["openai"] # None THEN <<OPENAI>> ELSE <<>>)
    \o (IF svc["ollama"] # None THEN <<OLLAMA>> ELSE <<>>)

\* The options list built from the registry.
ai_service_options(svc) ==
    (IF svc["ollama"] # None THEN <<OLLAMA>> ELSE <<>>)
    \o (IF svc["openai"] # None THEN <<OPENAI>> ELSE <<>>)

\* default_index: 0 on both branches.
default_index(options) == 0

\* st.radio(label, options, index): the session's stored choice while the
\* widget is the same (same options), otherwise the option at index.
st_radio(options, index, stored) ==
    IF stored.options = options /\ stored.value \in Range(options)
    THEN stored.value
    ELSE options[index + 1]

\* The sidebar's AI-service block.
ai_service_block(svc, stored) ==
    LET options == ai_service_options(svc)
    IN  IF options = <<>>
        THEN [ai_service_options |-> options, default_option |-> None,
              ai_service |-> None]
        ELSE [ai_service_options |-> options,
              default_option |-> options[default_index(options) + 1],
              ai_service |-> st_radio(options, default_index(options), stored)]

\* The registry key the chosen option is looked up under.
service_key(choice) == IF choice = OLLAMA THEN "ollama" ELSE "openai"

\* input_check without the date check.
input_check_no_dates(w, side, svc) ==
    IF w.source = "" \/ w.destination = ""
    THEN <<"validation_error", "Please fill in both source and destination cities.">>
    ELSE IF side.ai_service = None
    THEN <<"no_provider", "No AI service available. Please configure OpenAI or start Ollama.">>
    ELSE IF svc[service_key(side.ai_service)] = None
    THEN <<"no_provider", "service is not available. Please check your configuration.">>
    ELSE <<None, "">>

\* input_check without the provider checks.
input_check_no_provider(w, side, svc) ==
    IF w.source = "" \/ w.destination = ""
    THEN <<"validation_error", "Please fill in both source and destination cities.">>
    ELSE IF ~validate_dates(w.start_date, w.end_date)[1]
    THEN <<"validation_error", validate_dates(w.start_date, w.end_date)[2]>>
    ELSE <<None, "">>

\* What the input checks of the generate branch answer: the error shown, or
\* None when generation goes ahead.
input_check(w, side, svc) ==
    IF w.source = "" \/ w.destination = ""
    THEN <<"validation_error", "Please fill in both source and destination cities.">>
    ELSE IF ~validate_dates(w.start_date, w.end_date)[1]
    THEN <<"validation_error", validate_dates(w.start_date, w.end_date)[2]>>
    ELSE IF side.ai_service = None
    THEN <<"no_provider", "No AI service available. Please configure OpenAI or start Ollama.">>
    ELSE IF svc[service_key(side.ai_service)] = None
    THEN <<"no_provider", "service is not available. Please check your configuration.">>
    ELSE <<None, "">>

Bump(c, name, n) == [c EXCEPT ![name] = @ + n]

----------------------------------------------------------------------------
(* State *)

\* The widgets of a fresh page. Dates are counted in weeks from today: the
\* date inputs start at today + 7 days and today + 14 days.
DefaultWidgets ==
    [source |-> "", destination |-> "", start_date |-> 1, end_date |-> 2,
     generate_button |-> FALSE]

Environments ==
    [OPENAI_API_KEY : {"absent", Placeholder, "sk-key"},
     openai_sdk_fault : BOOLEAN,
     GOOGLE_PLACES_API_KEY : {"absent", "invalid", "AIza-key"},
     OPENWEATHER_API_KEY : {"absent", "ow-key"}]

Init ==
    /\ env \in {e \in Environments : e.openai_sdk_fault => e.OPENAI_API_KEY = "sk-key"}
    /\ pc = "idle"
    /\ runs = 0
    /\ constructed = [s \in ServiceNames |-> 0]
    /\ probes = 0
    /\ outcomes = NoOutcomes
    /\ services = [s \in ServiceNames |-> None]
    /\ service_errors = <<>>
    /\ widgets = DefaultWidgets
    /\ radio = NoSelection
    /\ sidebar = NoSidebar
    /\ session_state = [itinerary |-> None, destination |-> None,
                        start_date |-> 0, end_date |-> 0]
    /\ calls = NoCalls
    /\ results = NoResults
    /\ last_call = NoLastCall
    /\ shown = <<>>
    /\ run_end = "not_run"

\* A user interaction reruns the script from the top with the widget values
\* w and the stored radio choice r: main()'s locals and the page start anew.
Rerun(w, r) ==
    /\ pc = "idle"
    /\ runs < MaxRuns
    /\ runs' = runs + 1
    /\ pc' = "initialize"
    /\ widgets' = w
    /\ radio' = r
    /\ outcomes' = NoOutcomes
    /\ services' = [s \in ServiceNames |-> None]
    /\ service_errors' = <<>>
    /\ sidebar' = NoSidebar
    /\ calls' = NoCalls
    /\ results' = NoResults
    /\ last_call' = NoLastCall
    /\ shown' = <<>>
    /\ run_end' = "running"
    /\ UNCHANGED <<env, constructed, probes, session_state>>

\* The first script run, with the widgets at their defaults.
PageLoad ==
    /\ runs = 0
    /\ Rerun(DefaultWidgets, NoSelection)

\* The user changes one trip field.
EditTripDetails ==
    /\ runs > 0
    /\ \E f \in {"source", "destination", "start_date", "end_date"} :
       \E v \in (IF f = "source" THEN {"", "Pune"}
                 ELSE IF f = "destination" THEN {"", "Goa"} ELSE Dates) :
          /\ v # widgets[f]
          /\ Rerun([widgets EXCEPT ![f] = v, !.generate_button = FALSE], radio)

\* The user picks another of the offered AI services.
SelectService ==
    /\ runs > 0
    /\ \E o \in Range(sidebar.ai_service_options) :
          /\ o # sidebar.ai_service
          /\ Rerun([widgets EXCEPT !.generate_button = FALSE],
                   [options |-> sidebar.ai_service_options, value |-> o])

\* The user presses "Generate Itinerary".
ClickGenerate ==
    /\ runs > 0
    /\ Rerun([widgets EXCEPT !.generate_button = TRUE], radio)

----------------------------------------------------------------------------
(* main(): the steps of one script run *)

ProbeOutcomes == {"200", "non200", "RequestException"}

\* services, service_errors = initialize_services(), and the warning block.
InitializeServices ==
    /\ pc = "initialize"
    /\ \E probe \in ProbeOutcomes :
          LET outs == [openai |-> OpenAIService_init(env.OPENAI_API_KEY,
                                                     env.openai_sdk_fault),
                       ollama |-> OllamaService_init(probe),
                       places |-> PlacesService_init(env.GOOGLE_PLACES_API_KEY),
                       weather |-> WeatherService_init(env.OPENWEATHER_API_KEY)]
              reg == initialize_services(outs)
          IN  /\ outcomes' = outs
              /\ ~reg.raised
              /\ services' = reg.services
              /\ service_errors' = reg.errors
              /\ shown' = IF reg.errors # <<>>
                          THEN << <<"warning", "Some services are unavailable">> >>
                               \o [i \in DOMAIN reg.errors |-> <<"error", reg.errors[i][1]>>]
                          ELSE <<>>
    /\ constructed' = [s \in ServiceNames |-> constructed[s] + 1]
    /\ probes' = probes + 1
    /\ pc' = "sidebar"
    /\ UNCHANGED <<env, runs, widgets, radio, sidebar, session_state, calls,
                   results, last_call, run_end>>

\* The sidebar: the AI-service radio and the generate button; without a
\* press of the button the run ends with the welcome message.
Sidebar ==
    /\ pc = "sidebar"
    /\ LET side == ai_service_block(services, radio)
       IN  /\ sidebar' = side
           /\ radio' = IF radio.options = side.ai_service_options
                       THEN radio ELSE NoSelection
           /\ shown' = shown
                       \o (IF side.ai_service_options = <<>>
                           THEN << <<"warning", "No AI service available">> >>
                           ELSE <<>>)
                       \o (IF widgets.generate_button
                           THEN <<>> ELSE << <<"info", "welcome">> >>)
    /\ IF widgets.generate_button
       THEN pc' = "validate" /\ run_end' = run_end
       ELSE pc' = "idle" /\ run_end' = "welcome"
    /\ UNCHANGED <<env, runs, constructed, probes, outcomes, services,
                   service_errors, widgets, session_state, calls, results,
                   last_call>>

\* if generate_button: the input, date and provider checks.
ValidateInputs ==
    /\ pc = "validate"
    /\ LET chk == input_check(widgets, sidebar, services)
       IN  IF chk[1] # None
           THEN /\ shown' = Append(shown, <<"error", chk[2]>>)
                /\ run_end' = chk[1]
                /\ pc' = "idle"
           ELSE /\ shown' = Append(shown, <<"success", "Planning a trip">>)
                /\ run_end' = run_end
                /\ pc' = "generate"
    /\ UNCHANGED <<env, runs, constructed, probes, outcomes, services,
                   service_errors, widgets, radio, sidebar, session_state,
                   calls, results, last_call>>

\* ai_service_obj.generate_itinerary(...) on the chosen provider.
provider_generate(key, resp) ==
    IF key = "ollama" THEN Ollama_generate_itinerary(resp)
    ELSE OpenAI_generate_itinerary(resp)

\* after_generate without the return in the except block.
after_generate_no_return(r) == "weather"

\* except Exception: st.error and return; otherwise on to the display and
\* the enrichment blocks.
after_generate(r) == IF r.raised THEN "idle" ELSE "weather"

\* The try/except around generate_itinerary, then the itinerary display.
GenerateItinerary ==
    /\ pc = "generate"
    /\ LET key == service_key(sidebar.ai_service)
       IN  \E resp \in (IF key = "ollama" THEN OllamaResponses ELSE OpenAIResponses) :
              LET r == provider_generate(key, resp)
              IN  /\ calls' = Bump(calls, <<"generate", key>>, 1)
                  /\ last_call' = [name |-> "generate", responses |-> <<resp>>]
                  /\ IF r.raised
                     THEN /\ shown' = Append(shown, <<"error", r.msg>>)
                          /\ run_end' = "generation_error"
                          /\ pc' = after_generate(r)
                          /\ UNCHANGED <<results, session_state>>
                     ELSE /\ results' = [results EXCEPT !.itinerary = r.text]
                          /\ session_state' =
                                [itinerary |-> r.text,
                                 destination |-> widgets.destination,
                                 start_date |-> widgets.start_date,
                                 end_date |-> widgets.end_date]
                          /\ shown' = Append(shown, <<"itinerary", r.text>>)
                          /\ run_end' = run_end
                          /\ pc' = after_generate(r)
    /\ UNCHANGED <<env, runs, constructed, probes, outcomes, services,
                   service_errors, widgets, radio, sidebar>>

\* Where the run goes after the weather block.
after_weather(svc) == IF svc["places"] # None THEN "attractions" ELSE "idle"

\* The weather block: skipped without a client or a key; a summary is
\* formatted and shown.
WeatherInformation ==
    /\ pc = "weather"
    /\ IF services["weather"] # None /\ env.OPENWEATHER_API_KEY \notin {"absent", ""}
       THEN \E t \in WeatherInputs :
              LET w == get_weather_summary(env.OPENWEATHER_API_KEY, t[1], t[2], t[3])
              IN  /\ calls' = [calls EXCEPT ![<<"weather", "summary">>] = @ + 1,
                                            ![<<"weather", "geocode">>] = @ + w.geocode,
                                            ![<<"weather", "current">>] = @ + w.current,
                                            ![<<"weather", "forecast">>] = @ + w.forecast]
                  /\ last_call' = [name |-> "weather", responses |-> t]
                  /\ results' = [results EXCEPT !.weather_data = w.data]
                  /\ IF w.data # NoSummary /\ format_weather_summary_raises(w.data)
                     THEN /\ shown' = Append(shown, <<"header", "weather">>)
                          /\ run_end' = "uncaught_exception"
                          /\ pc' = "idle"
                     ELSE /\ shown' = shown \o << <<"header", "weather">> >>
                                      \o (IF w.data # NoSummary
                                          THEN << <<"weather", w.data.current>> >>
                                          ELSE <<>>)
                          /\ run_end' = IF after_weather(services) = "idle"
                                        THEN "completed" ELSE run_end
                          /\ pc' = after_weather(services)
       ELSE /\ pc' = after_weather(services)
            /\ run_end' = IF after_weather(services) = "idle"
                          THEN "completed" ELSE run_end
            /\ UNCHANGED <<calls, last_call, results, shown>>
    /\ UNCHANGED <<env, runs, constructed, probes, outcomes, services,
                   service_errors, widgets, radio, sidebar, session_state>>

\* One lookup of the places block: the call, then its list when non-empty.
PlacesStep(category, r, t, next) ==
    /\ calls' = [calls EXCEPT ![<<"places", category>>] = @ + 1,
                              ![<<"geocode", category>>] = @ + r.geocode,
                              ![<<"nearby", category>>] = @ + r.nearby]
    /\ last_call' = [name |-> category, responses |-> t]
    /\ IF r.raised
       THEN /\ run_end' = "uncaught_exception"
            /\ pc' = "idle"
            /\ UNCHANGED <<results, shown>>
       ELSE /\ results' = [results EXCEPT ![category] = r.result]
            /\ shown' = IF r.result = "places"
                        THEN Append(shown, <<"places", category>>) ELSE shown
            /\ run_end' = IF next = "idle" THEN "completed" ELSE run_end
            /\ pc' = next
    /\ UNCHANGED <<env, runs, constructed, probes, outcomes, services,
                   service_errors, widgets, radio, sidebar, session_state>>

Attractions ==
    /\ pc = "attractions"
    /\ \E t \in PlacesInputs :
          PlacesStep("attractions", get_attractions(t[1], t[2]), t, "restaurants")

Restaurants ==
    /\ pc = "restaurants"
    /\ \E t \in PlacesInputs :
          PlacesStep("restaurants", get_restaurants(t[1], t[2]), t, "cafes")

Cafes ==
    /\ pc = "cafes"
    /\ \E t \in PlacesInputs :
          PlacesStep("cafes", get_cafes(t[1], t[2]), t, "idle")

----------------------------------------------------------------------------
(* Specification *)

Next ==
    \/ PageLoad
    \/ EditTripDetails
    \/ SelectService
    \/ ClickGenerate
    \/ InitializeServices
    \/ Sidebar
    \/ ValidateInputs
    \/ GenerateItinerary
    \/ WeatherInformation
    \/ Attractions
    \/ Restaurants
    \/ Cafes

Spec == Init /\ [][Next]_vars

----------------------------------------------------------------------------
(* initialize_services on its own, over every combination of constructor
   outcomes: success, a ValueError or another Exception, with a message that
   does or does not name a missing key. *)

ConstructorOutcomes ==
    {Ok} \cup {ValueError(m) : m \in {MsgOpenAIKey, MsgPlacesKey, MsgOther}}
         \cup {OtherException(m) : m \in {MsgOther}}

InitRegistry ==
    /\ env \in {e \in Environments : e.OPENAI_API_KEY = "sk-key" /\ ~e.openai_sdk_fault
                                     /\ e.GOOGLE_PLACES_API_KEY = "AIza-key"
                                     /\ e.OPENWEATHER_API_KEY = "ow-key"}
    /\ pc = "registry"
    /\ runs = 0
    /\ constructed = [s \in ServiceNames |-> 0]
    /\ probes = 0
    /\ outcomes \in [ServiceNames -> ConstructorOutcomes]
    /\ services = [s \in ServiceNames |-> None]
    /\ service_errors = <<>>
    /\ widgets = DefaultWidgets
    /\ radio = NoSelection
    /\ sidebar = NoSidebar
    /\ session_state = [itinerary |-> None, destination |-> None,
                        start_date |-> 0, end_date |-> 0]
    /\ calls = NoCalls
    /\ results = NoResults
    /\ last_call = NoLastCall
    /\ shown = <<>>
    /\ run_end = "not_run"

\* services, errors = initialize_services() with the constructors answering
\* as outcomes says.
RegistryInitialize ==
    /\ pc = "registry"
    /\ LET reg == initialize_services(outcomes)
       IN  /\ services' = reg.services
           /\ service_errors' = reg.errors
           /\ pc' = IF reg.raised THEN "registry_raised" ELSE "registry_done"
    /\ constructed' = [s \in ServiceNames |-> constructed[s] + 1]
    /\ UNCHANGED <<env, runs, probes, outcomes, widgets, radio, sidebar,
                   session_state, calls, results, last_call, shown, run_end>>

NextRegistry == RegistryInitialize

SpecRegistry == InitRegistry /\ [][NextRegistry]_vars

----------------------------------------------------------------------------
(* The weather client on its own: constructed from the environment, then
   asked for a summary once, whatever the three endpoints would answer. *)

\* os.getenv('OPENWEATHER_API_KEY'): unset, set to the empty string, or a key.
WeatherKeys == {"absent", "", "ow-key"}

\* What the geocode, current-conditions and forecast endpoints would answer
\* to a request.
EndpointAnswers == WeatherGeocodeResponses \X CurrentResponses \X ForecastResponses

InitWeather ==
    /\ env \in {[OPENAI_API_KEY |-> "sk-key", openai_sdk_fault |-> FALSE,
                  GOOGLE_PLACES_API_KEY |-> "AIza-key", OPENWEATHER_API_KEY |-> k] :
                 k \in WeatherKeys}
    /\ pc = "weather_client"
    /\ runs = 0
    /\ constructed = [s \in ServiceNames |-> 0]
    /\ probes = 0
    /\ outcomes = NoOutcomes
    /\ services = [s \in ServiceNames |-> None]
    /\ service_errors = <<>>
    /\ widgets = DefaultWidgets
    /\ radio = NoSelection
    /\ sidebar = NoSidebar
    /\ session_state = [itinerary |-> None, destination |-> None,
                        start_date |-> 0, end_date |-> 0]
    /\ calls = NoCalls
    /\ results = NoResults
    /\ last_call = NoLastCall
    /\ shown = <<>>
    /\ run_end = "not_run"

\* The weather block of initialize_services: services['weather'] =
\* WeatherService(), None on an exception.
WeatherConstruct ==
    /\ pc = "weather_client"
    /\ LET out == WeatherService_init(env.OPENWEATHER_API_KEY)
       IN  /\ outcomes' = [outcomes EXCEPT !["weather"] = out]
           /\ services' = [services EXCEPT !["weather"] = SlotOf(out)]
           /\ service_errors' = service_errors \o WeatherErrors(out)
           /\ pc' = IF Caught("weather", out) THEN "weather_ready" ELSE "weather_raised"
    /\ constructed' = [constructed EXCEPT !["weather"] = @ + 1]
    /\ UNCHANGED <<env, runs, probes, widgets, radio, sidebar, session_state,
                   calls, results, last_call, shown, run_end>>

\* client.get_weather_summary(destination)
WeatherSummaryCall ==
    /\ pc = "weather_ready"
    /\ services["weather"] # None
    /\ \E t \in EndpointAnswers :
          LET w == get_weather_summary(env.OPENWEATHER_API_KEY, t[1], t[2], t[3])
          IN  /\ calls' = [calls EXCEPT ![<<"weather", "summary">>] = @ + 1,
                                        ![<<"weather", "geocode">>] = @ + w.geocode,
                                        ![<<"weather", "current">>] = @ + w.current,
                                        ![<<"weather", "forecast">>] = @ + w.forecast]
              /\ last_call' = [name |-> "weather", responses |-> t]
              /\ results' = [results EXCEPT !.weather_data = w.data]
    /\ pc' = "weather_done"
    /\ UNCHANGED <<env, runs, constructed, probes, outcomes, services,
                   service_errors, widgets, radio, sidebar, session_state,
                   shown, run_end>>

NextWeather ==
    \/ WeatherConstruct
    \/ WeatherSummaryCall

SpecWeather == InitWeather /\ [][NextWeather]_vars

----------------------------------------------------------------------------
(* The itinerary display of main(): the text of st.session_state['itinerary']
   is shown either as one markdown block or as one expander per section.
   A text is a sequence of characters; the str methods the display uses are
   written out on such sequences. *)

NL == "\n"
Whitespace == {" ", NL}

UpperCase ==
    <<"A", "B", "C", "D", "E", "F", "G", "H", "I", "J", "K", "L", "M",
      "N", "O", "P", "Q", "R", "S", "T", "U", "V", "W", "X", "Y", "Z">>
LowerCase ==
    <<"a", "b", "c", "d", "e", "f", "g", "h", "i", "j", "k", "l", "m",
      "n", "o", "p", "q", "r", "s", "t", "u", "v", "w", "x", "y", "z">>

\* str.lower()
ToLower(c) ==
    IF \E i \in DOMAIN UpperCase : UpperCase[i] = c
    THEN LowerCase[CHOOSE i \in DOMAIN UpperCase : UpperCase[i] = c]
    ELSE c

Lower(str) == [i \in DOMAIN str |-> ToLower(str[i])]

\* str.strip()
RECURSIVE LStrip(_)
LStrip(str) ==
    IF str # <<>> /\ Head(str) \in Whitespace THEN LStrip(Tail(str)) ELSE str

RECURSIVE RStrip(_)
RStrip(str) ==
    IF str # <<>> /\ str[Len(str)] \in Whitespace
    THEN RStrip(SubSeq(str, 1, Len(str) - 1)) ELSE str

Strip(str) == RStrip(LStrip(str))

\* str.startswith(prefix)
StartsWith(str, prefix) ==
    Len(prefix) <= Len(str) /\ SubSeq(str, 1, Len(prefix)) = prefix

\* sub in str
Contains(str, sub) ==
    \E i \in 1..(Len(str) - Len(sub) + 1) : SubSeq(str, i, i + Len(sub) - 1) = sub

\* str.replace(old, ''): the occurrences of old are removed from left to
\* right, without overlap.
RECURSIVE Remove(_, _)
Remove(str, old) ==
    IF str = <<>> THEN <<>>
    ELSE IF StartsWith(str, old)
    THEN Remove(SubSeq(str, Len(old) + 1, Len(str)), old)
    ELSE <<Head(str)>> \o Remove(Tail(str), old)

\* str.split('\n'): the empty text has one, empty, line.
RECURSIVE Split(_)
Split(str) ==
    IF \A i \in DOMAIN str : str[i] # NL
    THEN <<str>>
    ELSE LET i == CHOOSE k \in DOMAIN str :
                     str[k] = NL /\ \A j \in 1..(k - 1) : str[j] # NL
         IN  <<SubSeq(str, 1, i - 1)>> \o Split(SubSeq(str, i + 1, Len(str)))

\* '\n'.join(lines)
RECURSIVE Join(_)
Join(lines) ==
    IF lines = <<>> THEN <<>>
    ELSE IF Len(lines) = 1 THEN lines[1]
    ELSE lines[1] \o <<NL>> \o Join(Tail(lines))

PrefixDay == <<"d", "a", "y", " ">>
PrefixBoldDay == <<"*", "*", "d", "a", "y", " ">>
PrefixHashDay == <<"#", " ", "d", "a", "y", " ">>
Overview == <<"O", "v", "e", "r", "v", "i", "e", "w">>

\* The test inside has_day_markers = any(...): the stripped, lower-cased line
\* starts with 'day ', '**day ' or '# day '.
is_day_marker(line) ==
    LET l == Strip(Lower(line))
    IN  \/ StartsWith(l, PrefixDay)
        \/ StartsWith(l, PrefixBoldDay)
        \/ StartsWith(l, PrefixHashDay)

\* The test of the splitting loop: the three prefixes, or a line that starts
\* with '#' and has 'day' anywhere in it.
is_header(line) ==
    LET line_lower == Strip(Lower(line))
    IN  \/ StartsWith(line_lower, PrefixDay)
        \/ StartsWith(line_lower, PrefixBoldDay)
        \/ StartsWith(line_lower, PrefixHashDay)
        \/ (StartsWith(Strip(line), <<"#">>) /\ Contains(line_lower, <<"d", "a", "y">>))

\* has_day_markers computed with the test of the splitting loop.
has_day_markers_any_header(lines) == \E i \in DOMAIN lines : is_header(lines[i])

has_day_markers(lines) == \E i \in DOMAIN lines : is_day_marker(lines[i])

\* current_day = line.strip().replace('#', '').replace('**', '').strip()
day_label(line) == Strip(Remove(Remove(Strip(line), <<"#">>), <<"*", "*">>))

\* current_day = None
NoDay == <<None>>

Expander(label, content) == <<"expander", label, Join(content)>>

\* The loop body without "current_content = []" at a header.
split_step_keeps_content(acc, line) ==
    IF is_header(line)
    THEN [current_day |-> day_label(line),
          current_content |-> acc.current_content,
          expanders |-> IF acc.current_day # NoDay
                        THEN Append(acc.expanders,
                                    Expander(acc.current_day, acc.current_content))
                        ELSE acc.expanders]
    ELSE [current_day |-> IF acc.current_day = NoDay THEN Overview ELSE acc.current_day,
          current_content |-> Append(acc.current_content, line),
          expanders |-> acc.expanders]

\* One pass of "for line in lines": a header closes the running section (if
\* there is one) and opens the next; another line is added to the running
\* section, which is "Overview" when no header has been seen.
split_step(acc, line) ==
    IF is_header(line)
    THEN [current_day |-> day_label(line),
          current_content |-> <<>>,
          expanders |-> IF acc.current_day # NoDay
                        THEN Append(acc.expanders,
                                    Expander(acc.current_day, acc.current_content))
                        ELSE acc.expanders]
    ELSE [current_day |-> IF acc.current_day = NoDay THEN Overview ELSE acc.current_day,
          current_content |-> Append(acc.current_content, line),
          expanders |-> acc.expanders]

RECURSIVE split_loop(_, _)
split_loop(lines, acc) ==
    IF lines = <<>> THEN acc
    ELSE split_loop(Tail(lines), split_step(acc, Head(lines)))

\* The loop, then "if current_day:" for the last section.
split_sections(lines) ==
    LET acc == split_loop(lines, [current_day |-> NoDay, current_content |-> <<>>,
                                  expanders |-> <<>>])
    IN  IF acc.current_day # NoDay /\ acc.current_day # <<>>
        THEN Append(acc.expanders, Expander(acc.current_day, acc.current_content))
        ELSE acc.expanders

\* What the display block puts on the page for a text.
display_itinerary(itinerary_text) ==
    LET lines == Split(itinerary_text)
    IN  IF has_day_markers(lines)
        THEN split_sections(lines)
        ELSE << <<"markdown", itinerary_text>> >>

\* Lines a provider may write: plain "Day N" headers, body lines, a header
\* in bold with a leading blank, headers written as markdown headings of
\* level one and two, a blank line, and a body line with "day" inside it.
LineDay1 == <<"D", "a", "y", " ", "1">>
LineVisit == <<"V", "i", "s", "i", "t", " ", "m", "u", "s", "e", "u", "m">>
LineDay2 == <<"D", "a", "y", " ", "2">>
LineRelax == <<"R", "e", "l", "a", "x", " ", "a", "t", " ", "b", "e", "a", "c", "h">>
LineBoldDay1 == <<" ", "*", "*", "D", "a", "y", " ", "1", "*", "*">>
LineHashDay2 == <<"#", " ", "D", "a", "y", " ", "2">>
LineHashHashDay3 == <<"#", "#", " ", "D", "a", "y", " ", "3">>
LineBlank == <<>>
LineHoliday == <<"H", "o", "l", "i", "d", "a", "y">>

LineVocabulary ==
    {LineDay1, LineVisit, LineDay2, LineRelax, LineBoldDay1, LineHashDay2,
     LineHashHashDay3, LineBlank, LineHoliday}

\* What a provider writes: up to MaxLines lines.
ProviderLines == UNION {[1..n -> LineVocabulary] : n \in 0..MaxLines}

\* The text generate_itinerary returns: the lines joined, then stripped.
ItineraryText(ls) == Strip(Join(ls))

InitFormatter ==
    /\ env \in {[OPENAI_API_KEY |-> "sk-key", openai_sdk_fault |-> FALSE,
                 GOOGLE_PLACES_API_KEY |-> "AIza-key", OPENWEATHER_API_KEY |-> "ow-key"]}
    /\ pc = "display"
    /\ runs = 0
    /\ constructed = [s \in ServiceNames |-> 0]
    /\ probes = 0
    /\ outcomes = NoOutcomes
    /\ services = [s \in ServiceNames |-> None]
    /\ service_errors = <<>>
    /\ widgets = DefaultWidgets
    /\ radio = NoSelection
    /\ sidebar = NoSidebar
    /\ \E ls \in ProviderLines :
          session_state = [itinerary |-> ItineraryText(ls), destination |-> "Goa",
                           start_date |-> 1, end_date |-> 2]
    /\ calls = NoCalls
    /\ results = NoResults
    /\ last_call = NoLastCall
    /\ shown = <<>>
    /\ run_end = "running"

\* if 'itinerary' in st.session_state: the display block.
DisplayItinerary ==
    /\ pc = "display"
    /\ shown' = shown \o display_itinerary(session_state.itinerary)
    /\ pc' = "displayed"
    /\ UNCHANGED <<env, runs, constructed, probes, outcomes, services,
                   service_errors, widgets, radio, sidebar, session_state,
                   calls, results, last_call, run_end>>

NextFormatter == DisplayItinerary

SpecFormatter == InitFormatter /\ [][NextFormatter]_vars

----------------------------------------------------------------------------
(* Properties *)

EnrichmentCallNames == CallNames \ {<<"generate", "openai">>, <<"generate", "ollama">>}

NoEnrichmentCalls == \A c \in EnrichmentCallNames : calls[c] = 0

InvalidRequest(w) ==
    w.source = "" \/ w.destination = "" \/ w.end_date < w.start_date

LastShown == IF shown = <<>> THEN <<None, None>> ELSE shown[Len(shown)]

\* The registry of this run has been built / the sidebar has been drawn.
RegistryBuilt == runs > 0 /\ pc # "initialize"
SidebarDrawn == RegistryBuilt /\ pc # "sidebar"

\* C1: a generate action on a request with an empty source, an empty
\* destination or an end date before the start date never gets past the
\* input checks: the run makes no provider and no enrichment call, and it
\* ends with a validation error as the last thing shown.
C1_InvalidRequestRejected ==
    (runs > 0 /\ widgets.generate_button /\ InvalidRequest(widgets)) =>
        /\ calls = NoCalls
        /\ pc \in {"initialize", "sidebar", "validate", "idle"}
        /\ pc = "idle" => /\ run_end = "validation_error"
                          /\ LastShown[1] = "error"
                          /\ results = NoResults

C1_Witness ==
    /\ pc = "idle"
    /\ run_end = "validation_error"
    /\ widgets.generate_button
    /\ widgets.source # "" /\ widgets.destination # ""
    /\ widgets.end_date < widgets.start_date
    /\ ai_service_options(services) # <<>>

\* The response of the generate call just made is one on which the chosen
\* provider's generate_itinerary raises.
GenerateFailed ==
    /\ last_call.name = "generate"
    /\ provider_generate(service_key(sidebar.ai_service), last_call.responses[1]).raised

\* C2: when generate_itinerary of the chosen provider raises, the run ends
\* there with the error as the last thing shown, no itinerary, and no
\* weather or places call.
C2_GenerationErrorEndsRun ==
    GenerateFailed =>
        /\ pc = "idle"
        /\ run_end = "generation_error"
        /\ LastShown = <<"error", provider_generate(service_key(sidebar.ai_service),
                                                    last_call.responses[1]).msg>>
        /\ results = NoResults
        /\ NoEnrichmentCalls

C2_Witness ==
    /\ GenerateFailed
    /\ pc = "idle"
    /\ services["places"] # None
    /\ services["weather"] # None /\ env.OPENWEATHER_API_KEY = "ow-key"
    /\ calls[<<"generate", "ollama">>] = 1

\* C3: with neither LLM slot holding a client, a generate action whose
\* input is valid ends with the no-provider error and the run makes no
\* generation and no enrichment call.
C3_NoProviderAvailable ==
    (SidebarDrawn /\ widgets.generate_button /\ ~InvalidRequest(widgets)
       /\ services["ollama"] = None /\ services["openai"] = None) =>
        /\ calls = NoCalls
        /\ pc \in {"validate", "idle"}
        /\ pc = "idle" => /\ run_end = "no_provider"
                          /\ LastShown[1] = "error"
                          /\ results = NoResults

C3_Witness ==
    /\ pc = "idle"
    /\ run_end = "no_provider"
    /\ widgets.generate_button /\ ~InvalidRequest(widgets)
    /\ services["ollama"] = None /\ services["openai"] = None
    /\ services["places"] # None

Label(s) ==
    CASE s = "openai" -> "OpenAI"
      [] s = "ollama" -> "Ollama"
      [] s = "places" -> "Google Places"
      [] s = "weather" -> "Weather"

CauseRecorded(s) == \E i \in DOMAIN service_errors : service_errors[i][1] = Label(s)

Failed(s) == outcomes[s].kind # "ok"

LoadBearing == {"openai", "ollama", "places"}

C5_ConstructedOncePerProcess ==
    /\ \A s \in ServiceNames : constructed[s] <= 1
    /\ probes <= 1

Available(k) == services[k] # None

OfferedProviders == {service_key(o) : o \in Range(sidebar.ai_service_options)}

\* The provider generate_itinerary is called on has a client.
GenerateOnAvailable ==
    /\ \A k \in {"openai", "ollama"} : calls[<<"generate", k>>] > 0 => Available(k)
    /\ pc = "generate" => Available(service_key(sidebar.ai_service))

\* C6 as stated: the offered providers are the available ones; the default
\* is the local LLM when the session's stored choice is the local LLM and it
\* is available, otherwise the hosted one (the local one when only that is
\* offered); generation is called on an available provider.
C6_DefaultFollowsSessionPreference ==
    SidebarDrawn =>
        /\ OfferedProviders = {k \in {"openai", "ollama"} : Available(k)}
        /\ sidebar.ai_service_options # <<>> =>
              sidebar.default_option =
                 IF radio.value = OLLAMA /\ Available("ollama") THEN OLLAMA
                 ELSE IF Available("openai") THEN OPENAI ELSE OLLAMA
        /\ GenerateOnAvailable

\* C6 amended: the offered providers are the available ones; the default is
\* the local LLM whenever it is available, whatever the session chose
\* before, otherwise the hosted one when that is available; generation is
\* called on an available provider.
C6_DefaultIsLocalWhenAvailable ==
    SidebarDrawn =>
        /\ OfferedProviders = {k \in {"openai", "ollama"} : Available(k)}
        /\ sidebar.default_option =
              IF Available("ollama") THEN OLLAMA
              ELSE IF Available("openai") THEN OPENAI ELSE None
        /\ GenerateOnAvailable

C6_Witness ==
    /\ radio.value = OPENAI
    /\ Available("ollama") /\ Available("openai")
    /\ sidebar.default_option = OLLAMA
    /\ sidebar.ai_service = OPENAI
    /\ calls[<<"generate", "openai">>] = 1

\* C7: with the hosted credential absent, empty or the placeholder, the
\* hosted constructor fails, the hosted slot is None with a recorded cause,
\* the hosted option is not offered or chosen, and generate_itinerary is not
\* called on the hosted client.
C7_PlaceholderKeyExcludesHosted ==
    (RegistryBuilt /\ (env.OPENAI_API_KEY \in {"absent", ""}
                       \/ env.OPENAI_API_KEY = Placeholder)) =>
        /\ outcomes["openai"].kind = "ValueError"
        /\ services["openai"] = None
        /\ CauseRecorded("openai")
        /\ SidebarDrawn => /\ OPENAI \notin Range(sidebar.ai_service_options)
                           /\ sidebar.ai_service # OPENAI
        /\ calls[<<"generate", "openai">>] = 0

C7_Witness ==
    /\ env.OPENAI_API_KEY = Placeholder
    /\ pc = "idle"
    /\ run_end = "completed"
    /\ services["openai"] = None
    /\ calls[<<"generate", "ollama">>] = 1

\* A fault of the generation call: anything but a response carrying a
\* message content (a text, possibly blank).
GenerationFault(resp) == resp \notin {"content", "blank_content"}

\* C8 as stated: after a generation call that met a fault, a response with
\* no message content included, generate_itinerary has raised: the run has
\* ended with the generation error and no itinerary text was returned.
C8_EveryFaultRaises ==
    (last_call.name = "generate" /\ GenerationFault(last_call.responses[1])) =>
        /\ results.itinerary = None
        /\ run_end = "generation_error"

CurrentFailed(cur) == cur \in {"exception", "non200", "not_json", "missing_fields"}

\* C9 as stated: with a credential and a successful geocode, a failed
\* current-conditions call gives None, and a forecast call that fails by a
\* non-success status or by a transport fault gives a summary with the
\* current conditions and no forecast.
C9_ForecastFailureDegrades ==
    (last_call.name = "weather" /\ last_call.responses[1] = "found") =>
        /\ CurrentFailed(last_call.responses[2]) => results.weather_data = NoSummary
        /\ (last_call.responses[2] = "ok"
              /\ last_call.responses[3] \in {"exception", "non200"}) =>
                 results.weather_data = [current |-> "conditions", forecast |-> None]

PlaceFault(t) ==
    t[1] \in {"exception", "malformed"} \/ t[2] \in {"exception", "malformed"}

StepAfter(i) == IF i = 3 THEN "idle" ELSE Categories[i + 1]

C11_EmptyGeocodeGivesEmptyWithoutNearby ==
    \A i \in 1..3 :
        (last_call.name = Categories[i] /\ last_call.responses[1] = "empty") =>
            /\ results[Categories[i]] = "empty"
            /\ run_end # "uncaught_exception"
            /\ pc = StepAfter(i)
            /\ calls[<<"places", Categories[i]>>] = 1
            /\ calls[<<"geocode", Categories[i]>>] = 1
            /\ calls[<<"nearby", Categories[i]>>] = 0
            /\ \A j \in DOMAIN shown : shown[j] # <<"places", Categories[i]>>

C11_Witness ==
    /\ pc = "idle"
    /\ run_end = "completed"
    /\ last_call.name = "cafes"
    /\ last_call.responses[1] = "empty"
    /\ results.cafes = "empty"
    /\ results.attractions = "places"
    /\ calls[<<"nearby", "attractions">>] = 1
    /\ calls[<<"nearby", "cafes">>] = 0

GenerateCalls == calls[<<"generate", "openai">>] + calls[<<"generate", "ollama">>]

\* C15: nothing is retried. Within one run of the script the itinerary
\* generation is called at most once, and exactly once on the provider the
\* sidebar chose as soon as the run got past the generate block; the weather
\* summary is called at most once, with at most one request to each of its
\* endpoints; each of the three lookups is called at most once, with one
\* geocode call per lookup and at most one nearby-search call. This holds
\* whatever the calls answered.
C15_NothingIsRetried ==
    /\ GenerateCalls <= 1
    /\ (last_call.name # None /\ pc # "initialize" /\ pc # "sidebar" /\ pc # "validate") =>
          /\ GenerateCalls = 1
          /\ calls[<<"generate", service_key(sidebar.ai_service)>>] = 1
    /\ calls[<<"weather", "summary">>] <= 1
    /\ \A e \in {"geocode", "current", "forecast"} :
          calls[<<"weather", e>>] <= calls[<<"weather", "summary">>]
    /\ \A i \in 1..3 :
          /\ calls[<<"places", Categories[i]>>] <= 1
          /\ calls[<<"geocode", Categories[i]>>] = calls[<<"places", Categories[i]>>]
          /\ calls[<<"nearby", Categories[i]>>] <= calls[<<"places", Categories[i]>>]

C15_Witness ==
    /\ pc = "idle"
    /\ run_end = "completed"
    /\ GenerateCalls = 1
    /\ calls[<<"weather", "summary">>] = 1
    /\ calls[<<"weather", "forecast">>] = 1
    /\ results.weather_data = NoSummary
    /\ results.attractions = "empty"
    /\ calls[<<"geocode", "attractions">>] = 1
    /\ calls[<<"nearby", "attractions">>] = 0
    /\ calls[<<"nearby", "restaurants">>] = 1
    /\ results.restaurants = "empty"
    /\ last_call.name = "cafes"
    /\ last_call.responses[1] = "exception"

OllamaFaultKinds == {"Timeout", "RequestException", "non200"}

OllamaFaultMessage(resp) ==
    CASE resp = "Timeout" -> MsgTimeout
      [] resp = "RequestException" -> MsgConnect
      [] resp = "non200" -> MsgStatus

\* C16: local generation reports a timeout with the "timed out / the model
\* might be too slow" message, another connection fault with "Error
\* connecting to Ollama", and a non-200 answer with a message that carries
\* the status code; the three messages differ pairwise, so no kind is
\* reported under the message of another; all three are raised as the same
\* class of error, and the message is what the user is shown.
C16_OllamaFaultMessagesDistinct ==
    /\ \A a, b \in OllamaFaultKinds :
          a # b => OllamaFaultMessage(a) # OllamaFaultMessage(b)
    /\ (/\ last_call.name = "generate"
        /\ calls[<<"generate", "ollama">>] = 1
        /\ last_call.responses[1] \in OllamaFaultKinds) =>
          LET r == Ollama_generate_itinerary(last_call.responses[1])
          IN  /\ r.raised
              /\ r.kind = "Exception"
              /\ r.msg = OllamaFaultMessage(last_call.responses[1])
              /\ LastShown = <<"error", r.msg>>
              /\ run_end = "generation_error"

C16_Witness ==
    /\ pc = "idle"
    /\ run_end = "generation_error"
    /\ calls[<<"generate", "ollama">>] = 1
    /\ last_call.name = "generate"
    /\ last_call.responses[1] = "Timeout"
    /\ LastShown = <<"error", MsgTimeout>>

WeatherConstructed == outcomes["weather"] # NoOutcomes["weather"]

\* C12: without a weather credential (the variable unset or empty) the
\* weather client is still constructed: its slot holds a client and no
\* failure cause is recorded for it. A call of get_weather_summary returns
\* None, and no request has gone to the geocode, current-conditions or
\* forecast endpoint, whatever they would have answered. Nothing is shown to
\* the user: no error, no weather section, no uncaught exception.
C12_NoWeatherKeyNoCallNoError ==
    env.OPENWEATHER_API_KEY \in {"absent", ""} =>
        /\ WeatherConstructed =>
              /\ outcomes["weather"] = Ok
              /\ services["weather"] = Client
              /\ ~CauseRecorded("weather")
        /\ \A e \in {"geocode", "current", "forecast"} : calls[<<"weather", e>>] = 0
        /\ results.weather_data = NoSummary
        /\ \A j \in DOMAIN shown :
              /\ shown[j][1] # "weather"
              /\ shown[j] # <<"header", "weather">>
              /\ shown[j][1] = "error" => shown[j][2] # "Weather"
        /\ run_end # "uncaught_exception"
        /\ pc # "weather_raised"

C12_Witness ==
    /\ env.OPENWEATHER_API_KEY = "absent"
    /\ pc = "weather_done"
    /\ services["weather"] = Client
    /\ calls[<<"weather", "summary">>] = 1
    /\ last_call.responses = <<"found", "ok", "ok">>
    /\ results.weather_data = NoSummary
    /\ calls[<<"weather", "geocode">>] = 0

\* The display block has run on the text of the session.
Displayed == pc = "displayed"

ItineraryLines == Split(session_state.itinerary)

\* The lines at which the splitting loop opens a section.
HeaderLines(lines) == {i \in DOMAIN lines : is_header(lines[i])}

\* The sections a split text must give, read off the positions of its
\* headers: the lines before the first header under "Overview" when there
\* are any, then for each header, in source order, its label and the lines
\* up to the next header or the end of the text.
ExpectedSections(lines) ==
    LET H == HeaderLines(lines)
        n == Cardinality(H)
        lead == IF 1 \in H THEN 0 ELSE 1
        Nth(k) == CHOOSE h \in H : Cardinality({x \in H : x <= h}) = k
        EndOf(k) == IF k = n THEN Len(lines) ELSE Nth(k + 1) - 1
    IN  [j \in 1..(n + lead) |->
            IF j <= lead
            THEN <<"expander", Overview, Join(SubSeq(lines, 1, Nth(1) - 1))>>
            ELSE <<"expander", day_label(lines[Nth(j - lead)]),
                   Join(SubSeq(lines, Nth(j - lead) + 1, EndOf(j - lead)))>>]

ExampleText == Join(<<LineDay1, LineVisit, LineDay2, LineRelax>>)

\* C13: when the text is split (it has a day marker), the sections shown are
\* exactly those its headers delimit: the content before the first header
\* detected by the splitting loop is one section labelled "Overview"; each
\* header opens a section labelled with the header line stripped of '#' and
\* '**'; each section holds exactly the lines between its header and the
\* next header or the end of the text; the sections come in source order and
\* a repeated label gives a section each time. The text
\* "Day 1\nVisit museum\nDay 2\nRelax at beach" gives exactly the two
\* sections "Day 1" / "Visit museum" and "Day 2" / "Relax at beach".
C13_SectionsFollowHeaders ==
    Displayed =>
        /\ LET lines == ItineraryLines
           IN  has_day_markers(lines) => shown = ExpectedSections(lines)
        /\ session_state.itinerary = ExampleText =>
              shown = << <<"expander", LineDay1, LineVisit>>,
                         <<"expander", LineDay2, LineRelax>> >>

\* Leading content, a blank body line, and a label that occurs twice.
C13_Witness ==
    /\ Displayed
    /\ session_state.itinerary = Join(<<LineVisit, LineDay1, LineBlank, LineBoldDay1>>)
    /\ shown = << <<"expander", Overview, LineVisit>>,
                  <<"expander", LineDay1, <<>> >>,
                  <<"expander", LineDay1, <<>> >> >>

\* C14: a text none of whose lines starts (stripped, lower-cased) with one of
\* the day-header prefixes is shown as exactly one unlabeled markdown block
\* that equals the whole text, with no "Overview" section; a text with such a
\* line is split: it is shown as one or more labelled sections and no
\* unlabeled block.
C14_SplitIffDayMarker ==
    Displayed =>
        IF \E i \in DOMAIN ItineraryLines : is_day_marker(ItineraryLines[i])
        THEN /\ Len(shown) >= 1
             /\ \A j \in DOMAIN shown : shown[j][1] = "expander"
        ELSE shown = << <<"markdown", session_state.itinerary>> >>

C14_Witness ==
    /\ Displayed
    /\ session_state.itinerary = Join(<<LineVisit, LineBlank, LineHoliday, LineRelax>>)
    /\ shown = << <<"markdown", session_state.itinerary>> >>

\* The number of sections a text gets when the sections are opened by the
\* lines that satisfy the has-day-markers test.
MarkerLines(lines) == {i \in DOMAIN lines : is_day_marker(lines[i])}

\* C17: the two uses of header detection agree. In a text shown in sections,
\* the sections are opened by the lines that satisfy the has-day-markers test
\* and by no other line: there is one section per such line, plus the
\* leading one when the first line is not such a line. A text shown
\* unsectioned has no line that the splitting loop would take for a header.
C17_HeaderDetectionAgrees ==
    Displayed =>
        IF shown[1][1] = "expander"
        THEN Len(shown) = Cardinality(MarkerLines(ItineraryLines))
                          + (IF 1 \in MarkerLines(ItineraryLines) THEN 0 ELSE 1)
        ELSE \A i \in DOMAIN ItineraryLines : ~is_header(ItineraryLines[i])

====
